---- MODULE Spec2Model ----
(***************************************************************************)
(* Model of the client selection of avior-infuser-lib (src/src/lib.rs):    *)
(* group_clients partitions the clients into priority tiers and attaches   *)
(* each client's job count; get_eligible_client walks the tiers and picks  *)
(* a client.                                                               *)
(*                                                                         *)
(* Option<T> is modelled as a set with at most one element: {} is None and *)
(* {x} is Some(x).  A HashMap<Client, Option<i32>> is a function from      *)
(* clients to job count options; the order in which it is iterated is not  *)
(* fixed by the program (std's RandomState seeds every map differently),   *)
(* so every call of get_eligible_client iterates each tier in an order     *)
(* chosen nondeterministically.                                            *)
(***************************************************************************)
EXTENDS Integers, Sequences, FiniteSets, TLC

\* ---------------------------------------------------------------- bounds
\* Largest maximum_jobs and largest job count of the inputs.
MaxJobs == 2
\* Priorities of the inputs are 1..MaxPrio.
MaxPrio == 2

\* --------------------------------------------------- program constants
\* i32::MAX, the initial eligible_job_count of every tier.
I32Max == 2147483647

\* ---------------------------------------------------------------- data
\* The names of the clients of the inputs.
Names == {"a", "b"}

\* The ObjectId a client gets when it is persisted.
OidOf(name) == IF name = "a" THEN "o1" ELSE "o2"

\* ObjectId::default(), which group_clients uses for a client without id.
DefaultOid == "o0"

\* ObjectId::to_string(): the hex form of the id.
OidToString(oid) ==
    CASE oid = "o1" -> "0000000000000000000000a1"
      [] oid = "o2" -> "0000000000000000000000a2"
      [] OTHER      -> "000000000000000000000000"

\* struct Client (availability_start and availability_end are opaque
\* strings that no function of lib.rs reads; they are left out).
MkClient(id, name, max, prio, on, ign) ==
    [id |-> id, name |-> name, maximum_jobs |-> max, priority |-> prio,
     online |-> on, ignore_online |-> ign]

\* Equality as #[derive(PartialEq)] would define it: every field compared.
ClientEqDerived(self, other) == self = other

\* impl PartialEq for Client
ClientEq(self, other) ==
    IF self.id = {} /\ other.id = {}
    THEN self.name = other.name
    ELSE self.id = other.id

\* The clients a list of the inputs may hold: the client called name is
\* persisted (it has the id OidOf(name)) or not yet persisted (no id).
ClientsNamed(name) ==
    { MkClient(id, name, max, prio, on, ign) :
        id \in {{}, {OidOf(name)}}, max \in 0..MaxJobs, prio \in 1..MaxPrio,
        on \in BOOLEAN, ign \in BOOLEAN }

\* The entries an exclusion list of the inputs may hold.  Only id and name
\* of an entry are read (through ClientEq); the other fields are those of
\* a stale copy of the client.  An entry has the id of client a under
\* either name, or no id and the name of client a.
Probes ==
    { MkClient({"o1"}, name, 0, 1, FALSE, FALSE) : name \in Names }
        \cup { MkClient({}, "a", 0, 1, FALSE, FALSE) }

VARIABLES
    client_vec,         \* Vec<Client> handed to group_clients
    machine_jobcounts,  \* HashMap<String, i32> handed to group_clients
    ignored_clients,    \* Vec<Client> handed to get_eligible_client
    grouped,            \* the BTreeMap group_clients returned
    iter_order,         \* the order the last call iterated each tier in
    result,             \* what the last call of get_eligible_client returned
    pc                  \* "start", "grouped" or "selected"

vars == <<client_vec, machine_jobcounts, ignored_clients, grouped, iter_order, result, pc>>

\* ------------------------------------------------------- group_clients
\* BTreeMap<i32, HashMap<..>> as the sequence of its entries in key order,
\* each entry a record [prio, clients].
TierIndex(dict, prio) ==
    IF \E i \in 1..Len(dict) : dict[i].prio = prio
    THEN CHOOSE i \in 1..Len(dict) : dict[i].prio = prio
    ELSE 0

\* A map that keeps its entries in insertion order puts a new key last.
InsertPosAppend(dict, prio) == Len(dict) + 1

\* Position at which a new key is put so that the keys stay ascending.
InsertPos(dict, prio) ==
    Cardinality({ i \in 1..Len(dict) : dict[i].prio < prio }) + 1

\* HashMap::insert: a key equal to client (same hash, which is derived from
\* every field, and ClientEq) has its value replaced, otherwise the pair is
\* added.
MapInsert(m, client, job_count) ==
    [ k \in DOMAIN m \cup {client} |-> IF k = client THEN job_count ELSE m[k] ]

\* dict.entry(prio).or_insert(HashMap::new()).insert(client, job_count)
EntryInsert(dict, prio, client, job_count) ==
    LET i == TierIndex(dict, prio) IN
    IF i # 0
    THEN [dict EXCEPT ![i].clients = MapInsert(@, client, job_count)]
    ELSE LET p == InsertPos(dict, prio)
             e == [prio |-> prio, clients |-> MapInsert(<<>>, client, job_count)]
         IN SubSeq(dict, 1, p - 1) \o <<e>> \o SubSeq(dict, p, Len(dict))

\* machine_jobcounts.get(&client_id_string)
JobCountOf(jobcounts, client) ==
    LET oid == IF client.id = {} THEN DefaultOid ELSE CHOOSE o \in client.id : TRUE
        client_id_string == OidToString(oid)
    IN IF client_id_string \in DOMAIN jobcounts
       THEN {jobcounts[client_id_string]}
       ELSE {}

RECURSIVE GroupLoop(_, _, _, _)
GroupLoop(dict, vec, i, jobcounts) ==
    IF i > Len(vec) THEN dict
    ELSE GroupLoop(EntryInsert(dict, vec[i].priority, vec[i], JobCountOf(jobcounts, vec[i])),
                   vec, i + 1, jobcounts)

group_clients(vec, jobcounts) == GroupLoop(<<>>, vec, 1, jobcounts)

\* ------------------------------------------------- get_eligible_client
\* ignored_clients.iter().any(|c| c == client)
IsIgnored(ignored, client) == \E c \in ignored : ClientEq(c, client)

\* The availability test with the ignore_online flag read the wrong way
\* round: !(!client.online && client.ignore_online).
IsAvailableFlipped(client) == ~(~client.online /\ client.ignore_online)

\* !(!client.online && !client.ignore_online)
IsAvailable(client) == ~(~client.online /\ ~client.ignore_online)

\* The replacement test without the comparison with the best count so far.
ReplacesBelowMaxOnly(count, eligible_job_count, client) ==
    count < client.maximum_jobs

\* *count < eligible_job_count && *count < client.maximum_jobs
Replaces(count, eligible_job_count, client) ==
    count < eligible_job_count /\ count < client.maximum_jobs

\* A tier started with eligible_job_count = 0 instead of i32::MAX.
TierStartZero == [eligible |-> {}, eligible_job_count |-> 0]

\* The value of (eligible, eligible_job_count) at the start of a tier.
TierStart == [eligible |-> {}, eligible_job_count |-> I32Max]

\* A client without a known job count taken only while no candidate has
\* been found.
NoCountStepKeepFirst(st, client) ==
    IF st.eligible # {} THEN st
    ELSE [eligible |-> {client}, eligible_job_count |-> 0]

\* The branch taken for a client without a known job count.
NoCountStep(st, client) == [eligible |-> {client}, eligible_job_count |-> 0]

\* One pass of the inner loop body.
ClientStep(st, client, current_job_count, ignored) ==
    IF IsIgnored(ignored, client) THEN st
    ELSE IF ~IsAvailable(client) THEN st
    ELSE IF current_job_count # {}
         THEN LET count == CHOOSE n \in current_job_count : TRUE IN
              IF Replaces(count, st.eligible_job_count, client)
              THEN [eligible |-> {client}, eligible_job_count |-> count]
              ELSE st
         ELSE NoCountStep(st, client)

\* The inner loop over the clients of one tier, in the order ord.
RECURSIVE TierLoop(_, _, _, _, _)
TierLoop(st, clients, ord, i, ignored) ==
    IF i > Len(ord) THEN st
    ELSE TierLoop(ClientStep(st, ord[i], clients[ord[i]], ignored),
                  clients, ord, i + 1, ignored)

ScanTier(clients, ord, ignored) == TierLoop(TierStart, clients, ord, 1, ignored)

NoEligible == [ok |-> FALSE, message |-> "no eligible client found"]

Found(client, count) ==
    [ok |-> TRUE, client |-> client, count |-> count, max |-> client.maximum_jobs]

\* The outer loop over the tiers, in key order.
RECURSIVE PrioLoop(_, _, _, _)
PrioLoop(dict, orders, t, ignored) ==
    IF t > Len(dict) THEN NoEligible
    ELSE LET st == ScanTier(dict[t].clients, orders[t], ignored) IN
         IF st.eligible # {}
         THEN Found(CHOOSE c \in st.eligible : TRUE, st.eligible_job_count)
         ELSE PrioLoop(dict, orders, t + 1, ignored)

get_eligible_client(dict, orders, ignored) == PrioLoop(dict, orders, 1, ignored)

\* ---------------------------------------------------------- the inputs
\* The sequences that enumerate the set S without repetition.
Perms(S) ==
    { s \in [1..Cardinality(S) -> S] : \A i, j \in 1..Cardinality(S) : s[i] = s[j] => i = j }

\* The orders a call may iterate the tiers of dict in.
IterOrders(dict) ==
    { o \in [1..Len(dict) -> UNION { Perms(DOMAIN dict[t].clients) : t \in 1..Len(dict) }] :
        \A t \in 1..Len(dict) : o[t] \in Perms(DOMAIN dict[t].clients) }

\* The place of a name in the clients collection.
NameRank(name) == IF name = "a" THEN 1 ELSE 2

\* The client lists: at most one client of each name, in the order of the
\* collection (the priorities are in any order).
ClientVecs ==
    UNION { { s \in [1..Cardinality(ns) -> UNION { ClientsNamed(n) : n \in ns }] :
                \A i, j \in 1..Cardinality(ns) :
                    i < j => NameRank(s[i].name) < NameRank(s[j].name) } :
            ns \in SUBSET Names }

\* The job count mappings for a client list: an entry for any of the
\* persisted clients of the list.
JobCountMaps(vec) ==
    LET keys == { OidToString(CHOOSE o \in vec[i].id : TRUE) : i \in { j \in 1..Len(vec) : vec[j].id # {} } }
    IN UNION { [ks -> 0..MaxJobs] : ks \in SUBSET keys }

\* The exclusion lists: empty or one entry.
IgnoredLists == {{}} \cup { {p} : p \in Probes }

Init ==
    /\ client_vec \in ClientVecs
    /\ machine_jobcounts \in JobCountMaps(client_vec)
    /\ ignored_clients \in IgnoredLists
    /\ grouped = <<>>
    /\ iter_order = <<>>
    /\ result = NoEligible
    /\ pc = "start"

\* let grouped = group_clients(clients, jobcounts)
GroupClients ==
    /\ pc = "start"
    /\ grouped' = group_clients(client_vec, machine_jobcounts)
    /\ pc' = "grouped"
    /\ UNCHANGED <<client_vec, machine_jobcounts, ignored_clients, iter_order, result>>

\* get_eligible_client(&grouped, &ignored); it may be called again on the
\* same structure.
GetEligibleClient ==
    /\ pc \in {"grouped", "selected"}
    /\ \E o \in IterOrders(grouped) :
        /\ iter_order' = o
        /\ result' = get_eligible_client(grouped, o, ignored_clients)
    /\ pc' = "selected"
    /\ UNCHANGED <<client_vec, machine_jobcounts, ignored_clients, grouped>>

Next == GroupClients \/ GetEligibleClient

Spec == Init /\ [][Next]_vars

\* ----------------------------------------------- vocabulary of the claims
\* The identity-equality rule: same persisted id, or both without id and
\* the same name.
SameEntity(a, b) ==
    \/ a.id # {} /\ b.id # {} /\ a.id = b.id
    \/ a.id = {} /\ b.id = {} /\ a.name = b.name

Excluded(c) == \E x \in ignored_clients : SameEntity(x, c)

Online(c) == c.online \/ c.ignore_online

Tiers == 1..Len(grouped)

TierClients(t) == DOMAIN grouped[t].clients

\* The job count of c in tier t, absent counted as 0.
Load(t, c) ==
    IF grouped[t].clients[c] = {} THEN 0 ELSE CHOOSE n \in grouped[t].clients[c] : TRUE

\* c is a non-excluded, available, under-capacity client of tier t.
Qualifies(t, c) ==
    /\ c \in TierClients(t)
    /\ ~Excluded(c)
    /\ Online(c)
    /\ Load(t, c) < c.maximum_jobs

QualifyingTiers == { t \in Tiers : \E c \in TierClients(t) : Qualifies(t, c) }

\* The tier the returned client is in.
ResultTier == CHOOSE t \in Tiers : result.client \in TierClients(t)

Selected == pc = "selected"

\* ------------------------------------------------------------------- C1
\* C1: whenever get_eligible_client returns Ok((client, count, max)), the
\* count is strictly less than max = client.maximum_jobs.
C1_CountBelowMax ==
    Selected /\ result.ok =>
        /\ result.max = result.client.maximum_jobs
        /\ result.count < result.max

\* ------------------------------------------------------------------- C2
\* C2: the returned client, if any, belongs to the lowest-numbered tier
\* that holds a non-excluded, available, under-capacity client.
C2_LowestQualifyingTier ==
    Selected /\ result.ok =>
        /\ ResultTier \in QualifyingTiers
        /\ \A u \in QualifyingTiers : ResultTier <= u

\* ------------------------------------------------------------------- C3
\* The structure with the excluded clients removed from their tiers, and
\* the iteration order of the clients that remain.
WithoutExcluded ==
    [ t \in Tiers |->
        [prio |-> grouped[t].prio,
         clients |-> [ c \in { k \in TierClients(t) : ~Excluded(k) } |-> grouped[t].clients[c] ]] ]

OrderWithoutExcluded ==
    [ t \in Tiers |-> SelectSeq(iter_order[t], LAMBDA c : ~Excluded(c)) ]

\* C3: a client matching an entry of the exclusion list is never returned,
\* and the call returns what it returns on the structure without the
\* excluded clients.
C3_ExclusionCorrect ==
    Selected =>
        /\ result.ok => ~Excluded(result.client)
        /\ result = get_eligible_client(WithoutExcluded, OrderWithoutExcluded, ignored_clients)

\* An excluded client is the only client that is available and under its
\* capacity, and the call fails.
C3_Witness ==
    /\ Selected
    /\ \E t \in Tiers : \E c \in TierClients(t) :
        /\ Excluded(c) /\ Online(c) /\ Load(t, c) < c.maximum_jobs
        /\ \A u \in Tiers : \A d \in TierClients(u) :
              d # c => ~(Online(d) /\ Load(u, d) < d.maximum_jobs)
    /\ Len(client_vec) = Cardinality(Names)
    /\ result = NoEligible

\* ------------------------------------------------------------------- C4
\* C4: a second call of get_eligible_client on the same inputs returns what
\* the first call returned.
C4_Deterministic ==
    [][pc = "selected" /\ pc' = "selected" => result' = result]_vars

\* ------------------------------------------------------------------- C5
NoneOnline ==
    \A i \in 1..Len(client_vec) :
        ~client_vec[i].online /\ ~client_vec[i].ignore_online

\* C5: when no client of the list is online and none has ignore_online
\* set, the call fails with "no eligible client found".
C5_NoneOnlineFails ==
    Selected /\ NoneOnline =>
        result = [ok |-> FALSE, message |-> "no eligible client found"]

\* No client is online, though every client is under its capacity and
\* none is excluded, and the call fails.
C5_Witness ==
    /\ Selected
    /\ NoneOnline
    /\ Len(client_vec) = Cardinality(Names)
    /\ \A t \in Tiers : \A c \in TierClients(t) :
          ~Excluded(c) /\ Load(t, c) < c.maximum_jobs
    /\ ~result.ok

\* ------------------------------------------------------------------- C6
\* C6: the call succeeds when some tier holds a non-excluded, available
\* client whose count (absent counted as 0) is below its capacity; an
\* empty client list makes it fail.
C6_FailsOnlyWhenExhausted ==
    Selected =>
        /\ QualifyingTiers # {} => result.ok
        /\ client_vec = <<>> => ~result.ok

\* The first tier holds no qualifying client, the second holds one with a
\* known count of at least 1, and the call succeeds.
C6_Witness ==
    /\ Selected
    /\ Len(grouped) = 2
    /\ QualifyingTiers = {2}
    /\ \A c \in TierClients(2) : grouped[2].clients[c] # {} /\ Load(2, c) >= 1
    /\ result.ok

\* ------------------------------------------------------------------- C7
\* C7: the returned count is at most the count (absent counted as 0) of
\* every non-excluded, available, under-capacity client of the tier the
\* returned client is in, and a client whose known count is at least its
\* maximum_jobs is never returned.
C7_LeastLoaded ==
    Selected /\ result.ok =>
        /\ \A c \in TierClients(ResultTier) :
              Qualifies(ResultTier, c) => result.count <= Load(ResultTier, c)
        /\ grouped[ResultTier].clients[result.client] # {}
              => Load(ResultTier, result.client) < result.client.maximum_jobs

\* Two clients of the returned client's tier qualify with different known
\* counts, and the one with the larger count was iterated last.
C7_Witness ==
    /\ Selected
    /\ result.ok
    /\ Len(iter_order[ResultTier]) = 2
    /\ \A c \in TierClients(ResultTier) :
          Qualifies(ResultTier, c) /\ grouped[ResultTier].clients[c] # {}
    /\ Load(ResultTier, iter_order[ResultTier][1]) < Load(ResultTier, iter_order[ResultTier][2])
    /\ result.client = iter_order[ResultTier][1]

\* ------------------------------------------------------------------- C8
\* The structure with every absent job count replaced by a count of 0.
ZeroFilled ==
    [ t \in Tiers |->
        [prio |-> grouped[t].prio,
         clients |-> [ c \in TierClients(t) |-> {Load(t, c)} ]] ]

\* C8: replacing every absent job count by 0 changes neither whether the
\* call succeeds nor the returned count and maximum.
C8_AbsentIsZero ==
    Selected =>
        LET r0 == get_eligible_client(ZeroFilled, iter_order, ignored_clients) IN
        /\ r0.ok = result.ok
        /\ result.ok => r0.count = result.count /\ r0.max = result.max

\* ------------------------------------------------------------------- C9
\* The job count the mapping holds under the identity string of c.
ExpectedCount(c) ==
    LET key == IF c.id = {} THEN OidToString(DefaultOid)
               ELSE OidToString(CHOOSE o \in c.id : TRUE)
    IN IF key \in DOMAIN machine_jobcounts THEN {machine_jobcounts[key]} ELSE {}

DistinctIdentities ==
    \A i, j \in 1..Len(client_vec) :
        SameEntity(client_vec[i], client_vec[j]) => i = j

\* C9: group_clients puts every client of a list of distinct identities in
\* exactly one tier, the one keyed by its priority, with the job count the
\* mapping holds for it; it adds nothing else; the tiers are in ascending
\* order of priority and none is empty; an empty list gives an empty
\* structure.
C9_GroupPartition ==
    pc # "start" /\ DistinctIdentities =>
        /\ \A i \in 1..Len(client_vec) :
              /\ Cardinality({ t \in Tiers : client_vec[i] \in TierClients(t) }) = 1
              /\ \A t \in Tiers : client_vec[i] \in TierClients(t) =>
                    /\ grouped[t].prio = client_vec[i].priority
                    /\ grouped[t].clients[client_vec[i]] = ExpectedCount(client_vec[i])
        /\ \A t \in Tiers : \A c \in TierClients(t) :
              \E i \in 1..Len(client_vec) : client_vec[i] = c
        /\ \A t, u \in Tiers : t < u => grouped[t].prio < grouped[u].prio
        /\ \A t \in Tiers : TierClients(t) # {}
        /\ client_vec = <<>> => grouped = <<>>

\* The first client of the list is persisted, has a known job count and
\* the larger priority number; the second has no id and ends up in the
\* first tier.
C9_Witness ==
    /\ pc = "grouped"
    /\ Len(client_vec) = 2
    /\ client_vec[1].priority > client_vec[2].priority
    /\ client_vec[1].id # {} /\ ExpectedCount(client_vec[1]) # {}
    /\ client_vec[2].id = {}
    /\ Len(grouped) = 2
    /\ client_vec[2] \in TierClients(1)

\* ------------------------------------------------------------------ C10
\* The positions of the order of tier t that hold a non-excluded,
\* available client without a known job count.
UnknownAt(t) ==
    { i \in 1..Len(iter_order[t]) :
        LET c == iter_order[t][i] IN
        ~Excluded(c) /\ Online(c) /\ grouped[t].clients[c] = {} }

\* The positions that hold a non-excluded, available client whose known
\* job count is below its capacity.
KnownAt(t) ==
    { i \in 1..Len(iter_order[t]) :
        LET c == iter_order[t][i] IN
        ~Excluded(c) /\ Online(c) /\ grouped[t].clients[c] # {} /\ Load(t, c) < c.maximum_jobs }

MaxOf(S) == CHOOSE x \in S : \A y \in S : y <= x

MinOf(S) == CHOOSE x \in S : \A y \in S : x <= y

\* What the tier yields according to the rule: nothing, or a client and
\* the count recorded for it.
RuleOf(t) ==
    IF UnknownAt(t) # {}
    THEN [eligible |-> {iter_order[t][MaxOf(UnknownAt(t))]}, eligible_job_count |-> 0]
    ELSE IF KnownAt(t) # {}
    THEN LET m == MinOf({ Load(t, iter_order[t][i]) : i \in KnownAt(t) })
             first == MinOf({ i \in KnownAt(t) : Load(t, iter_order[t][i]) = m })
         IN [eligible |-> {iter_order[t][first]}, eligible_job_count |-> m]
    ELSE [eligible |-> {}, eligible_job_count |-> I32Max]

YieldingTiers == { t \in Tiers : RuleOf(t).eligible # {} }

C10_WitnessTie ==
    /\ Selected
    /\ result.ok
    /\ KnownAt(ResultTier) = {1, 2}
    /\ Load(ResultTier, iter_order[ResultTier][1]) = Load(ResultTier, iter_order[ResultTier][2])
    /\ result.client = iter_order[ResultTier][1]
====
